---- MODULE Spec2Model ----
(***************************************************************************)
(* pebble-migrate: the schema-version catalog, the pending-order planner,  *)
(* the execution engine and the startup integration path.                  *)
(*                                                                         *)
(* Identifiers.  A migration ID "<version>_<description>" is modelled as   *)
(* the sequence of its "_"-separated fields: <<version, tok1, ..., tokn>>. *)
(* Appending the suffix "_rollback" / "_rerun" to an ID is Append(id,      *)
(* "rollback") / Append(id, "rerun"), and the suffix test of               *)
(* isRollbackRecord is a test on the last field.                           *)
(*                                                                         *)
(* Versions.  A version is a Unix timestamp.  The model counts versions in *)
(* units of 100 seconds so that the year-2100 bound fits the integers of   *)
(* the model checker: 1754917200 is written 17549172.                      *)
(***************************************************************************)
EXTENDS Integers, Sequences, FiniteSets, TLC

VARIABLES
    registry,     \* MigrationRegistry.ordered: the registered migrations, by version
    hasKey,       \* the reserved key __schema_version__ is present in the store
    isEmpty,      \* the store holds no key at all (isDatabaseEmpty)
    schema,       \* the SchemaVersion record stored under the reserved key
    pc,           \* "idle", or "run" while a migration callback is executing
    op,           \* the operation in progress or last finished
    plan,         \* ExecutionPlan.Migrations of the plan being executed
    idx,          \* position in the plan of the migration being executed
    up,           \* the `up` argument of the executeSingleMigration call in progress
    cb,           \* the callback executing: "Up", "Down" or "Validate"
    calls,        \* callbacks invoked since the operation started, in order
    pre,          \* the store's catalog state when the operation started
    result,       \* outcome of the last finished operation
    backups,      \* backups created since the operation started
    dg,           \* the downgrade requested last: its target, and what it undoes
    limit,        \* how many records the history may hold (bound of the run)
    tsApplied,    \* planner: the applied set handed to GetPendingMigrations
    tsResult,     \* planner: what GetPendingMigrations returned
    regCall,      \* registry: the last call of Register and what was accepted
    bk            \* backups: manager settings, the store path, its parent
                  \* directory, and the last call of the manager

vars == <<registry, hasKey, isEmpty, schema, pc, op, plan, idx, up, cb, calls,
          pre, result, backups, dg, limit, tsApplied, tsResult, regCall, bk>>

engineVars == <<hasKey, isEmpty, schema, pc, op, plan, idx, up, cb, calls,
                pre, result, backups, dg>>

plannerVars == <<tsApplied, tsResult, regCall, bk>>

-----------------------------------------------------------------------------
(* Bounds *)

MaxHistory == 2

MaxRunHistory == 4

MaxRegistered == 3

MaxCreated == 3

MaxRetention == 2

MaxContents == 1

-----------------------------------------------------------------------------
(* Identifiers and versions *)

MinVersion == 9466848
MaxVersion == 41024448

ParseError == -1

\* a first field that strconv.ParseInt refuses ("abc", or nothing at all)
NotANumber == -2

\* strings.SplitN(id, "_", 2) must give two parts, the first an integer of the
\* years 2000-2100.
ParseMigrationVersion(migrationID) ==
    IF Len(migrationID) < 2 THEN ParseError
    ELSE IF Head(migrationID) = NotANumber THEN ParseError
    ELSE IF Head(migrationID) < MinVersion \/ Head(migrationID) > MaxVersion
         THEN ParseError
         ELSE Head(migrationID)

\* isValidMigrationID: the identifier parses
isValidMigrationID(id) == ParseMigrationVersion(id) # ParseError

\* len(id) > 9 && id[len(id)-9:] == "_rollback"
isRollbackRecord(id) ==
    Len(id) >= 2 /\ id[Len(id)] = "rollback"

\* record.ID[:len(record.ID)-9]
StripRollback(id) == SubSeq(id, 1, Len(id) - 1)

-----------------------------------------------------------------------------
(* Registry *)

Mig(id, deps, rerunnable, validate) ==
    [ID |-> id, Version |-> 0, Dependencies |-> deps, Up |-> TRUE, Down |-> TRUE,
     Validate |-> validate, Rerunnable |-> rerunnable]

NewMigrationRegistry == <<>>

RegistryIDs(r) == {r[i].ID : i \in 1..Len(r)}

GetMigration(r, id) == CHOOSE m \in {r[i] : i \in 1..Len(r)} : m.ID = id

\* an insertion that leaves the new migration last
BubbleDownNever(ordered, i) == ordered

RECURSIVE BubbleDown(_, _)
\* the insertion loop of Register: the new last element moves towards the
\* front while its version is strictly smaller than its predecessor's
BubbleDown(ordered, i) ==
    IF i > 1 /\ ordered[i].Version < ordered[i-1].Version
    THEN BubbleDown([ordered EXCEPT ![i] = ordered[i-1], ![i-1] = ordered[i]], i - 1)
    ELSE ordered

\* the error Register returns for m, "none" when it accepts it
RegisterError(r, m) ==
    IF m.ID \in RegistryIDs(r) THEN "already registered"
    ELSE IF m.ID = <<>> THEN "empty ID"
    ELSE IF ~m.Up THEN "no Up"
    ELSE IF ~m.Down THEN "no Down"
    ELSE IF ParseMigrationVersion(m.ID) = ParseError THEN "invalid format"
    ELSE "none"

\* Register returns the registry unchanged when it rejects the migration
Register(r, m) ==
    IF RegisterError(r, m) # "none" THEN r
    ELSE LET mv == [m EXCEPT !.Version = ParseMigrationVersion(m.ID)]
         IN  BubbleDown(Append(r, mv), Len(r) + 1)

RECURSIVE RegisterAll(_, _)
RegisterAll(r, ms) ==
    IF ms = <<>> THEN r ELSE RegisterAll(Register(r, Head(ms)), Tail(ms))

GetMigrations(r) == r

\* inclusive on both ends, in registry order
GetMigrationsInVersionRange(r, fromVersion, toVersion) ==
    SelectSeq(r, LAMBDA m : m.Version >= fromVersion /\ m.Version <= toVersion)

-----------------------------------------------------------------------------
(* Pending-order algorithm *)

Range(s) == {s[i] : i \in 1..Len(s)}

\* all orders in which a Go map iteration can deliver the members of S
Perms(S) ==
    {p \in [1..Cardinality(S) -> S] : \A i, j \in 1..Cardinality(S) : p[i] = p[j] => i = j}

Swap(s, i, j) == [s EXCEPT ![i] = s[j], ![j] = s[i]]

RECURSIVE SortReadyNewestFirst(_, _, _)
\* the ready list sorted with the comparison the other way round
SortReadyNewestFirst(ready, i, j) ==
    IF i >= Len(ready) THEN ready
    ELSE IF j > Len(ready) THEN SortReadyNewestFirst(ready, i + 1, i + 2)
    ELSE SortReadyNewestFirst(IF ready[i].Version < ready[j].Version
                              THEN Swap(ready, i, j) ELSE ready, i, j + 1)

RECURSIVE SortReady(_, _, _)
\* for i := 0; i < len-1; for j := i+1; j < len: swap when ready[i] is newer
SortReady(ready, i, j) ==
    IF i >= Len(ready) THEN ready
    ELSE IF j > Len(ready) THEN SortReady(ready, i + 1, i + 2)
    ELSE SortReady(IF ready[i].Version > ready[j].Version THEN Swap(ready, i, j) ELSE ready,
                   i, j + 1)

RECURSIVE CountIn(_, _)
\* number of occurrences of x in the sequence s
CountIn(s, x) ==
    IF s = <<>> THEN 0 ELSE (IF Head(s) = x THEN 1 ELSE 0) + CountIn(Tail(s), x)

RECURSIVE Repeat(_, _)
Repeat(x, n) == IF n = 0 THEN <<>> ELSE <<x>> \o Repeat(x, n - 1)

RECURSIVE Dependents(_, _)
\* graph[depID]: the IDs of the pending migrations that declare depID, one
\* entry per declaration, in the order the migrations are scanned
Dependents(migrations, depID) ==
    IF migrations = <<>> THEN <<>>
    ELSE Repeat(Head(migrations).ID, CountIn(Head(migrations).Dependencies, depID))
            \o Dependents(Tail(migrations), depID)

\* a sort that counts only the first unmet dependency of a migration
UnappliedFirstOnly(m, appliedMigrations) ==
    LET u == SelectSeq(m.Dependencies, LAMBDA d : d \notin appliedMigrations)
    IN  IF u = <<>> THEN u ELSE <<Head(u)>>

\* a sort that counts the applied dependencies as well
UnappliedAll(m, appliedMigrations) == m.Dependencies

\* the declared dependencies of m that are not applied
Unapplied(m, appliedMigrations) ==
    SelectSeq(m.Dependencies, LAMBDA d : d \notin appliedMigrations)

RECURSIVE Release(_, _, _, _)
\* for each dependent: inDegree--, and append to ready when it reaches zero
Release(dependents, inDegree, ready, migrations) ==
    IF dependents = <<>> THEN [inDegree |-> inDegree, ready |-> ready]
    ELSE LET d  == Head(dependents)
             n  == inDegree[d] - 1
             m  == CHOOSE x \in Range(migrations) : x.ID = d
         IN  Release(Tail(dependents), [inDegree EXCEPT ![d] = n],
                     IF n = 0 THEN Append(ready, m) ELSE ready, migrations)

RECURSIVE Kahn(_, _, _, _)
Kahn(ready, inDegree, sorted, migrations) ==
    IF ready = <<>> THEN [sorted |-> sorted, inDegree |-> inDegree]
    ELSE LET r       == SortReady(ready, 1, 2)
             current == r[1]
             rel     == Release(Dependents(migrations, current.ID), inDegree,
                                Tail(r), migrations)
         IN  Kahn(rel.ready, rel.inDegree, Append(sorted, current), migrations)

\* a sort that returns what it has emitted when the ready list runs dry
TopoFromPartial(seed, inDegree, migrations) ==
    LET k == Kahn(seed, inDegree, <<>>, migrations)
    IN  [ok |-> TRUE, err |-> "none", sorted |-> k.sorted, nodes |-> {}]

\* The result for one delivery order `seed` of the zero in-degree nodes.
TopoFrom(seed, inDegree, migrations) ==
    LET k == Kahn(seed, inDegree, <<>>, migrations)
    IN  IF Len(k.sorted) # Len(migrations)
        THEN [ok |-> FALSE, err |-> "cycle", sorted |-> <<>>,
              nodes |-> {id \in DOMAIN k.inDegree : k.inDegree[id] > 0}]
        ELSE [ok |-> TRUE, err |-> "none", sorted |-> k.sorted, nodes |-> {}]

\* The set of results topologicalSort can return: the nodes without unmet
\* dependency are collected by ranging over a map, in any order.
topologicalSort(r, migrations, appliedMigrations) ==
    LET ids      == {m.ID : m \in Range(migrations)}
        dangling == {m \in Range(migrations) :
                        \E d \in Range(Unapplied(m, appliedMigrations)) : d \notin ids}
        inDegree == [id \in ids |->
                        Len(Unapplied(GetMigration(migrations, id), appliedMigrations))]
        zero     == {m \in Range(migrations) : inDegree[m.ID] = 0}
    IN  IF migrations = <<>>
        THEN {[ok |-> TRUE, err |-> "none", sorted |-> <<>>, nodes |-> {}]}
        ELSE IF dangling # {}
        THEN {[ok |-> FALSE, err |-> "dangling", sorted |-> <<>>,
               nodes |-> {m.ID : m \in dangling}]}
        ELSE {TopoFrom(seed, inDegree, migrations) : seed \in Perms(zero)}

GetPendingMigrations(r, appliedMigrations) ==
    topologicalSort(r, SelectSeq(r, LAMBDA m : m.ID \notin appliedMigrations),
                    appliedMigrations)

-----------------------------------------------------------------------------
(* Catalog store: the SchemaVersion record under the reserved key *)

\* what GetSchemaVersion returns when the reserved key is absent
ZeroSchema ==
    [CurrentVersion |-> 0, AppliedMigrations |-> {}, MigrationHistory |-> <<>>,
     Status |-> "clean"]

GetSchemaVersion(key, s) == IF key THEN s ELSE ZeroSchema

MigrationRecord(id, success) == [ID |-> id, Success |-> success]

MaxOf(S) == IF S = {} THEN 0 ELSE CHOOSE x \in S : \A y \in S : y <= x

\* an update that records the success and forgets the applied set
UpdateSchemaAfterMigrationHistoryOnly(s, migrationID, version) ==
    [CurrentVersion    |-> IF version > s.CurrentVersion THEN version ELSE s.CurrentVersion,
     AppliedMigrations |-> s.AppliedMigrations,
     MigrationHistory  |-> Append(s.MigrationHistory, MigrationRecord(migrationID, TRUE)),
     Status            |-> "clean"]

UpdateSchemaAfterMigration(s, migrationID, version) ==
    [CurrentVersion    |-> IF version > s.CurrentVersion THEN version ELSE s.CurrentVersion,
     AppliedMigrations |-> s.AppliedMigrations \cup {migrationID},
     MigrationHistory  |-> Append(s.MigrationHistory, MigrationRecord(migrationID, TRUE)),
     Status            |-> "clean"]

MarkMigrationStarted(s) == [s EXCEPT !.Status = "migrating"]

\* a failure mark that appends the record and leaves the status alone
MarkMigrationFailedKeepsStatus(s, migrationID) ==
    [s EXCEPT !.MigrationHistory = Append(@, MigrationRecord(migrationID, FALSE))]

MarkMigrationFailed(s, migrationID) ==
    [s EXCEPT !.MigrationHistory = Append(@, MigrationRecord(migrationID, FALSE)),
              !.Status = "dirty"]

MarkRollbackStarted(s) == [s EXCEPT !.Status = "rollback"]

\* a rollback update that removes the ID and appends no rollback record
UpdateAfterRollbackNoRecord(s, migrationID) ==
    LET remaining == s.AppliedMigrations \ {migrationID}
        versions  == {ParseMigrationVersion(id) : id \in remaining} \ {ParseError}
    IN  [CurrentVersion    |-> MaxOf({v \in versions : v > 0}),
         AppliedMigrations |-> remaining,
         MigrationHistory  |-> s.MigrationHistory,
         Status            |-> "clean"]

\* a rollback update that removes the ID and keeps current_version
UpdateAfterRollbackKeepsVersion(s, migrationID) ==
    [CurrentVersion    |-> s.CurrentVersion,
     AppliedMigrations |-> s.AppliedMigrations \ {migrationID},
     MigrationHistory  |-> Append(s.MigrationHistory,
                                  MigrationRecord(Append(migrationID, "rollback"), TRUE)),
     Status            |-> "clean"]

UpdateAfterRollback(s, migrationID) ==
    LET remaining == s.AppliedMigrations \ {migrationID}
        versions  == {ParseMigrationVersion(id) : id \in remaining} \ {ParseError}
    IN  [CurrentVersion    |-> MaxOf({v \in versions : v > 0}),
         AppliedMigrations |-> remaining,
         MigrationHistory  |-> Append(s.MigrationHistory,
                                      MigrationRecord(Append(migrationID, "rollback"), TRUE)),
         Status            |-> "clean"]

RECURSIVE SuccessfulMigrations(_, _)
\* the replay of the history in ValidateSchemaState: a successful record that
\* is not a rollback record adds its ID, any rollback record removes the ID
\* it is a rollback of
SuccessfulMigrations(history, acc) ==
    IF history = <<>> THEN acc
    ELSE LET record == Head(history)
         IN  SuccessfulMigrations(Tail(history),
                IF record.Success /\ ~isRollbackRecord(record.ID)
                THEN acc \cup {record.ID}
                ELSE IF isRollbackRecord(record.ID)
                     THEN acc \ {StripRollback(record.ID)}
                     ELSE acc)

\* a validation that checks the history against the applied set and not the
\* status
ValidateSchemaStateIgnoresStatus(s) ==
    LET successful == SuccessfulMigrations(s.MigrationHistory, {})
    IN  IF \E id \in successful : id \notin s.AppliedMigrations
        THEN "successful but not applied"
        ELSE IF \E id \in s.AppliedMigrations : id \notin successful
             THEN "applied but no successful record"
        ELSE "ok"

\* "ok", or the reason validation fails
ValidateSchemaState(s) ==
    LET successful == SuccessfulMigrations(s.MigrationHistory, {})
    IN  IF s.Status = "dirty" THEN "dirty"
        ELSE IF s.Status = "migrating" THEN "migrating"
        ELSE IF s.Status = "rollback" THEN "rollback"
        ELSE IF \E id \in successful : id \notin s.AppliedMigrations
             THEN "successful but not applied"
        ELSE IF \E id \in s.AppliedMigrations : id \notin successful
             THEN "applied but no successful record"
        ELSE "ok"

ForceCleanState(s) == [s EXCEPT !.Status = "clean"]

\* successfulInHistory of RepairMissingHistory
SuccessfulInHistory(s) ==
    {s.MigrationHistory[i].ID : i \in {j \in 1..Len(s.MigrationHistory) :
        s.MigrationHistory[j].Success /\ ~isRollbackRecord(s.MigrationHistory[j].ID)}}

MissingHistory(s) == s.AppliedMigrations \ SuccessfulInHistory(s)

RecordsOf(ids) == [i \in 1..Len(ids) |-> MigrationRecord(ids[i], TRUE)]

\* The outcomes of RepairMissingHistory: the applied map is ranged over in any
\* order, one synthetic record per applied ID without a successful record;
\* nothing is written when nothing is missing.
RepairMissingHistory(s) ==
    IF MissingHistory(s) = {}
    THEN {[schema |-> s, repaired |-> <<>>, wrote |-> FALSE]}
    ELSE {[schema   |-> [s EXCEPT !.MigrationHistory = @ \o RecordsOf(order),
                                  !.Status = "clean"],
           repaired |-> order, wrote |-> TRUE] : order \in Perms(MissingHistory(s))}

\* an initialization that takes every store without the reserved key for a
\* fresh one
FreshSchemaIgnoresData(r, empty) ==
    IF Len(GetMigrations(r)) = 0 THEN ZeroSchema
    ELSE [CurrentVersion    |-> MaxOf({r[i].Version : i \in 1..Len(r)}),
          AppliedMigrations |-> RegistryIDs(r),
          MigrationHistory  |-> [i \in 1..Len(r) |-> MigrationRecord(r[i].ID, TRUE)],
          Status            |-> "clean"]

\* The record InitializeFreshDatabase writes when the reserved key is absent.
FreshSchema(r, empty) ==
    IF ~empty \/ Len(GetMigrations(r)) = 0 THEN ZeroSchema
    ELSE [CurrentVersion    |-> MaxOf({r[i].Version : i \in 1..Len(r)}),
          AppliedMigrations |-> RegistryIDs(r),
          MigrationHistory  |-> [i \in 1..Len(r) |-> MigrationRecord(r[i].ID, TRUE)],
          Status            |-> "clean"]

InitializeFreshDatabase(key, s, r, empty) == IF key THEN s ELSE FreshSchema(r, empty)

-----------------------------------------------------------------------------
(* Planner *)

EmptyPlan == [ok |-> TRUE, err |-> "none", sorted |-> <<>>, nodes |-> {}]

PlanOf(ms) == [ok |-> TRUE, err |-> "none", sorted |-> ms, nodes |-> {}]

\* the plans PlanUpgrade can return (the Migrations of the plan, or the error)
PlanUpgrade(r, s) == GetPendingMigrations(r, s.AppliedMigrations)

PlanUpgradeTo(r, s, targetVersion) ==
    IF s.CurrentVersion >= targetVersion THEN {EmptyPlan}
    ELSE {PlanOf(SelectSeq(GetMigrationsInVersionRange(r, s.CurrentVersion + 1, targetVersion),
                           LAMBDA m : m.ID \notin s.AppliedMigrations))}

RECURSIVE Reverse(_)
Reverse(q) == IF q = <<>> THEN <<>> ELSE Append(Reverse(Tail(q)), Head(q))

PlanDowngrade(r, s, targetVersion) ==
    IF s.CurrentVersion <= targetVersion THEN {EmptyPlan}
    ELSE {PlanOf(SelectSeq(Reverse(GetMigrationsInVersionRange(r, targetVersion + 1,
                                                                s.CurrentVersion)),
                           LAMBDA m : m.ID \in s.AppliedMigrations))}

PlanRerun(r, s, migrationID) ==
    IF migrationID \notin RegistryIDs(r)
    THEN {[ok |-> FALSE, err |-> "not found", sorted |-> <<>>, nodes |-> {}]}
    ELSE {PlanOf(<<GetMigration(r, migrationID)>>)}

-----------------------------------------------------------------------------
(* Engine and startup integration *)

Stored == GetSchemaVersion(hasKey, schema)

Op(type, via, dryRun, backup, run, recovered) ==
    [type |-> type, via |-> via, dryRun |-> dryRun, backup |-> backup, run |-> run,
     recovered |-> recovered]

NoOp == Op("none", "none", FALSE, FALSE, FALSE, FALSE)

Call(name, id) == [cb |-> name, id |-> id]

\* the history may still grow by n records
Room(s, n) == Len(s.MigrationHistory) + n <= limit

\* the operation returns res without having invoked a callback, the store
\* holding (key, s)
Done(res, key, s, nbackups) ==
    /\ pc' = "idle" /\ result' = res
    /\ hasKey' = key /\ schema' = s /\ backups' = nbackups
    /\ isEmpty' = (isEmpty /\ ~key)
    /\ idx' = 0 /\ up' = TRUE /\ cb' = "none" /\ calls' = <<>>

\* an engine that marks the run as started first and creates the backup
\* afterwards
ExecutePlanBackupLast(o, ms, backupOk, key, s) ==
    LET cur      == GetSchemaVersion(key, s)
        doBackup == o.backup /\ (o.type = "rerun" \/ Len(ms) > 0)
        nb       == IF doBackup THEN 1 ELSE 0
        started  == IF o.type = "downgrade" THEN MarkRollbackStarted(cur)
                    ELSE MarkMigrationStarted(cur)
        first    == IF o.type = "upgrade" THEN "Up" ELSE "Down"
    IN  /\ op' = o
        /\ plan' = ms
        /\ IF o.type = "rerun" /\ Len(ms) # 1 THEN Done("bad plan", key, s, 0)
           ELSE IF o.dryRun THEN Done("ok", key, s, 0)
           ELSE IF ValidateSchemaState(cur) # "ok" THEN Done("validation failed", key, s, 0)
           ELSE IF doBackup /\ ~backupOk THEN Done("backup failed", TRUE, started, 0)
           ELSE IF Len(ms) = 0 THEN Done("ok", TRUE, started, nb)
           ELSE /\ pc' = "run" /\ result' = "none"
                /\ hasKey' = TRUE /\ schema' = started /\ backups' = nb
                /\ isEmpty' = FALSE
                /\ idx' = 1 /\ up' = (o.type = "upgrade") /\ cb' = first
                /\ calls' = <<Call(first, ms[1].ID)>>

\* an engine that tests the dry-run flag after the backup is made
ExecutePlanDryRunLate(o, ms, backupOk, key, s) ==
    LET cur      == GetSchemaVersion(key, s)
        doBackup == o.backup /\ (o.type = "rerun" \/ Len(ms) > 0)
        nb       == IF doBackup THEN 1 ELSE 0
        started  == IF o.type = "downgrade" THEN MarkRollbackStarted(cur)
                    ELSE MarkMigrationStarted(cur)
        first    == IF o.type = "upgrade" THEN "Up" ELSE "Down"
    IN  /\ op' = o
        /\ plan' = ms
        /\ IF o.type = "rerun" /\ Len(ms) # 1 THEN Done("bad plan", key, s, 0)
           ELSE IF doBackup /\ ~backupOk THEN Done("backup failed", key, s, 0)
           ELSE IF o.dryRun THEN Done("ok", key, s, nb)
           ELSE IF ValidateSchemaState(cur) # "ok" THEN Done("validation failed", key, s, nb)
           ELSE IF Len(ms) = 0 THEN Done("ok", TRUE, started, nb)
           ELSE /\ pc' = "run" /\ result' = "none"
                /\ hasKey' = TRUE /\ schema' = started /\ backups' = nb
                /\ isEmpty' = FALSE
                /\ idx' = 1 /\ up' = (o.type = "upgrade") /\ cb' = first
                /\ calls' = <<Call(first, ms[1].ID)>>

\* ExecutePlan on the migrations ms, the store holding (key, s) when it is
\* called: executeUpgrade, executeDowngrade and executeRerun up to the first
\* callback.
ExecutePlan(o, ms, backupOk, key, s) ==
    LET cur      == GetSchemaVersion(key, s)
        doBackup == o.backup /\ (o.type = "rerun" \/ Len(ms) > 0)
        nb       == IF doBackup THEN 1 ELSE 0
        started  == IF o.type = "downgrade" THEN MarkRollbackStarted(cur)
                    ELSE MarkMigrationStarted(cur)
        first    == IF o.type = "upgrade" THEN "Up" ELSE "Down"
    IN  /\ op' = o
        /\ plan' = ms
        /\ IF o.type = "rerun" /\ Len(ms) # 1 THEN Done("bad plan", key, s, 0)
           ELSE IF o.dryRun THEN Done("ok", key, s, 0)
           ELSE IF doBackup /\ ~backupOk THEN Done("backup failed", key, s, 0)
           ELSE IF ValidateSchemaState(cur) # "ok" THEN Done("validation failed", key, s, nb)
           ELSE IF Len(ms) = 0 THEN Done("ok", TRUE, started, nb)
           ELSE /\ pc' = "run" /\ result' = "none"
                /\ hasKey' = TRUE /\ schema' = started /\ backups' = nb
                /\ isEmpty' = FALSE
                /\ idx' = 1 /\ up' = (o.type = "upgrade") /\ cb' = first
                /\ calls' = <<Call(first, ms[1].ID)>>

\* CreateBackup can fail; its outcome matters only when a backup is asked for
BackupOutcomes(dryRun, backup) == IF backup /\ ~dryRun THEN BOOLEAN ELSE {TRUE}

Targets == {0} \cup {registry[i].Version : i \in 1..Len(registry)}

Snapshot == [hasKey |-> hasKey, isEmpty |-> isEmpty, schema |-> schema]

\* no downgrade is the operation in progress or last finished
NoDowngrade ==
    [target |-> -1, roundTrip |-> FALSE, origin |-> ZeroSchema, upgraded |-> <<>>]

\* PlanDowngrade(target) is about to be executed.  roundTrip: the operation
\* finished last is a successful Execute(PlanUpgrade()) and target is the
\* current_version it started from; origin is the record it started from,
\* upgraded the plan it executed
Downgrade(target) ==
    LET origin == GetSchemaVersion(pre.hasKey, pre.schema)
        trip   == /\ op.type = "upgrade" /\ op.via = "execute" /\ ~op.dryRun
                  /\ result = "ok"
                  /\ \E p \in PlanUpgrade(registry, origin) : p.ok /\ p.sorted = plan
                  /\ target = origin.CurrentVersion
    IN  IF trip
        THEN [target |-> target, roundTrip |-> TRUE, origin |-> origin,
              upgraded |-> [i \in 1..Len(plan) |-> plan[i].ID]]
        ELSE [NoDowngrade EXCEPT !.target = target]

\* Execute(PlanUpgrade()) and Execute(PlanUpgradeTo(v))
ExecuteUpgrade ==
    /\ pc = "idle"
    /\ \E dryRun, backup \in BOOLEAN :
       \E backupOk \in BackupOutcomes(dryRun, backup), target \in Targets \cup {-1} :
       \E p \in (IF target = -1 THEN PlanUpgrade(registry, Stored)
                 ELSE PlanUpgradeTo(registry, Stored, target)) :
          LET o == Op("upgrade", "execute", dryRun, backup, FALSE, FALSE)
          IN  /\ Room(Stored, Len(p.sorted))
              /\ pre' = Snapshot /\ dg' = NoDowngrade
              /\ IF p.ok THEN ExecutePlan(o, p.sorted, backupOk, hasKey, schema)
                 ELSE /\ op' = o /\ plan' = <<>>
                      /\ Done("plan failed", hasKey, schema, 0)
    /\ UNCHANGED <<registry, limit, plannerVars>>

\* Execute(PlanDowngrade(v))
ExecuteDowngrade ==
    /\ pc = "idle"
    /\ \E dryRun, backup \in BOOLEAN :
       \E backupOk \in BackupOutcomes(dryRun, backup), target \in Targets :
       \E p \in PlanDowngrade(registry, Stored, target) :
          /\ Room(Stored, Len(p.sorted))
          /\ pre' = Snapshot /\ dg' = Downgrade(target)
          /\ ExecutePlan(Op("downgrade", "execute", dryRun, backup, FALSE, FALSE),
                         p.sorted, backupOk, hasKey, schema)
    /\ UNCHANGED <<registry, limit, plannerVars>>

\* Execute(PlanRerun(id))
ExecuteRerun ==
    /\ pc = "idle"
    /\ \E dryRun, backup \in BOOLEAN :
       \E backupOk \in BackupOutcomes(dryRun, backup), id \in RegistryIDs(registry) :
       \E p \in PlanRerun(registry, Stored, id) :
          /\ Room(Stored, 1)
          /\ pre' = Snapshot /\ dg' = NoDowngrade
          /\ ExecutePlan(Op("rerun", "execute", dryRun, backup, FALSE, FALSE),
                         p.sorted, backupOk, hasKey, schema)
    /\ UNCHANGED <<registry, limit, plannerVars>>

\* a recovery that resets the status whether or not the stuck migration is
\* rerunnable
attemptMigrationRecoveryUnchecked(s, rp) ==
    IF ~rp.ok THEN [err |-> "plan failed", schema |-> s]
    ELSE IF Len(rp.sorted) = 0 THEN [err |-> "no pending", schema |-> s]
    ELSE [err |-> "none", schema |-> [s EXCEPT !.Status = "clean"]]

\* a recovery that announces the retry and forgets to write the clean status
attemptMigrationRecoveryNoReset(s, rp) ==
    IF ~rp.ok THEN [err |-> "plan failed", schema |-> s]
    ELSE IF Len(rp.sorted) = 0 THEN [err |-> "no pending", schema |-> s]
    ELSE IF ~rp.sorted[1].Rerunnable THEN [err |-> "not rerunnable", schema |-> s]
    ELSE [err |-> "none", schema |-> s]

\* a recovery that also resets the status when nothing is pending
attemptMigrationRecoveryAnyPlan(s, rp) ==
    IF ~rp.ok THEN [err |-> "plan failed", schema |-> s]
    ELSE IF Len(rp.sorted) > 0 /\ ~rp.sorted[1].Rerunnable
         THEN [err |-> "not rerunnable", schema |-> s]
    ELSE [err |-> "none", schema |-> [s EXCEPT !.Status = "clean"]]

\* attemptMigrationRecovery on the record s, rp being what PlanUpgrade
\* returned: the error, or the record written
attemptMigrationRecovery(s, rp) ==
    IF ~rp.ok THEN [err |-> "plan failed", schema |-> s]
    ELSE IF Len(rp.sorted) = 0 THEN [err |-> "no pending", schema |-> s]
    ELSE IF ~rp.sorted[1].Rerunnable THEN [err |-> "not rerunnable", schema |-> s]
    ELSE [err |-> "none", schema |-> [s EXCEPT !.Status = "clean"]]

\* CheckAndRunStartupMigrations up to the first callback.  diskOk: the
\* free-space check passes (or is switched off).
CheckAndRun ==
    /\ pc = "idle"
    /\ \E run, backup \in BOOLEAN :
       \E backupOk \in BackupOutcomes(FALSE, backup), diskOk \in BOOLEAN :
       LET s0       == InitializeFreshDatabase(hasKey, schema, registry, isEmpty)
           stuck    == s0.Status = "migrating"
           o(rec)   == Op("upgrade", "checkandrun", FALSE, backup, run, rec)
           fail(rec, res, s) == /\ op' = o(rec) /\ plan' = <<>> /\ Done(res, TRUE, s, 0)
       IN  /\ pre' = Snapshot /\ dg' = NoDowngrade
           /\ \E rp \in PlanUpgrade(registry, s0) :
              LET rec == attemptMigrationRecovery(s0, rp)
                  s1  == IF stuck THEN rec.schema ELSE s0
                  recovered == stuck /\ rec.err = "none"
              IN  IF stuck /\ rec.err # "none" THEN fail(FALSE, rec.err, s0)
                  ELSE IF s1.Status # "clean" THEN fail(recovered, "not clean", s1)
                  ELSE \E p \in PlanUpgrade(registry, s1) :
                       IF ~p.ok THEN fail(recovered, "plan failed", s1)
                       ELSE IF Len(p.sorted) = 0 THEN fail(recovered, "ok", s1)
                       ELSE IF ~run THEN fail(recovered, "pending migrations", s1)
                       ELSE IF ~diskOk THEN fail(recovered, "disk space", s1)
                       ELSE /\ Room(s1, Len(p.sorted))
                            /\ ExecutePlan(o(recovered), p.sorted, backupOk, TRUE, s1)
    /\ UNCHANGED <<registry, limit, plannerVars>>

Current == plan[idx]

\* a failed rollback recorded under the ID of the migration itself
FailedIDUnsuffixed ==
    IF op.type \in {"upgrade", "downgrade"} THEN Current.ID
    ELSE IF up THEN Append(Current.ID, "rerun")
    ELSE Append(Append(Current.ID, "rerun"), "rollback")

\* the ID MarkMigrationFailed is given when the executing step fails
FailedID ==
    IF op.type = "upgrade" THEN Current.ID
    ELSE IF op.type = "downgrade" THEN Append(Current.ID, "rollback")
    ELSE IF up THEN Append(Current.ID, "rerun")
    ELSE Append(Append(Current.ID, "rerun"), "rollback")

\* the executing callback (Up, Down or Validate) returns an error
CallbackFails ==
    /\ pc = "run"
    /\ schema' = MarkMigrationFailed(Stored, FailedID)
    /\ pc' = "idle" /\ result' = "callback failed"
    /\ UNCHANGED <<registry, limit, dg, hasKey, isEmpty, op, plan, idx, up, cb, calls, pre, backups,
                   plannerVars>>

\* Up or Down returns success and the migration has a Validate callback:
\* executeSingleMigration invokes it
ValidateInvoked ==
    /\ pc = "run" /\ cb \in {"Up", "Down"} /\ Current.Validate
    /\ cb' = "Validate"
    /\ calls' = Append(calls, Call("Validate", Current.ID))
    /\ UNCHANGED <<registry, limit, dg, hasKey, isEmpty, schema, pc, op, plan, idx, up, pre, result,
                   backups, plannerVars>>

\* executeSingleMigration is about to return nil
StepSucceeds ==
    /\ pc = "run"
    /\ cb = "Validate" \/ ~Current.Validate

\* the loop goes on to the next migration of the plan and invokes first, or
\* the plan is finished
NextOrFinish(first) ==
    IF idx < Len(plan)
    THEN /\ idx' = idx + 1 /\ cb' = first
         /\ calls' = Append(calls, Call(first, plan[idx + 1].ID))
         /\ UNCHANGED <<pc, result>>
    ELSE /\ pc' = "idle" /\ result' = "ok"
         /\ UNCHANGED <<idx, cb, calls>>

\* executeUpgrade: a step succeeded, UpdateSchemaAfterMigration, next step
MigrationCommitted ==
    /\ StepSucceeds /\ op.type = "upgrade"
    /\ schema' = UpdateSchemaAfterMigration(Stored, Current.ID, Current.Version)
    /\ NextOrFinish("Up")
    /\ UNCHANGED <<registry, limit, dg, hasKey, isEmpty, op, plan, up, pre, backups, plannerVars>>

\* executeDowngrade: a step succeeded, UpdateAfterRollback, next step
RollbackCommitted ==
    /\ StepSucceeds /\ op.type = "downgrade"
    /\ schema' = UpdateAfterRollback(Stored, Current.ID)
    /\ NextOrFinish("Down")
    /\ UNCHANGED <<registry, limit, dg, hasKey, isEmpty, op, plan, up, pre, backups, plannerVars>>

\* executeRerun: the down step succeeded, the up step is invoked
RerunReapplies ==
    /\ StepSucceeds /\ op.type = "rerun" /\ ~up
    /\ up' = TRUE /\ cb' = "Up"
    /\ calls' = Append(calls, Call("Up", Current.ID))
    /\ UNCHANGED <<registry, limit, dg, hasKey, isEmpty, schema, pc, op, plan, idx, pre, result,
                   backups, plannerVars>>

\* executeRerun: the up step succeeded, UpdateSchemaAfterMigration(id_rerun)
RerunCommitted ==
    /\ StepSucceeds /\ op.type = "rerun" /\ up
    /\ schema' = UpdateSchemaAfterMigration(Stored, Append(Current.ID, "rerun"),
                                            Current.Version)
    /\ pc' = "idle" /\ result' = "ok"
    /\ UNCHANGED <<registry, limit, dg, hasKey, isEmpty, op, plan, idx, up, cb, calls, pre, backups,
                   plannerVars>>

\* the process dies while a callback is executing; the store keeps what the
\* last write left
Crash ==
    /\ pc = "run"
    /\ pc' = "idle" /\ result' = "crashed"
    /\ UNCHANGED <<registry, limit, dg, hasKey, isEmpty, schema, op, plan, idx, up, cb, calls, pre,
                   backups, plannerVars>>

\* an operation of the catalog store, called on its own
StoreOp(type, key, s, res) ==
    /\ pc = "idle"
    /\ op' = Op(type, "store", FALSE, FALSE, FALSE, FALSE)
    /\ pre' = Snapshot /\ dg' = NoDowngrade
    /\ plan' = <<>>
    /\ Done(res, key, s, 0)
    /\ UNCHANGED <<registry, limit, plannerVars>>

ForceClean == StoreOp("forceclean", TRUE, ForceCleanState(Stored), "ok")

Repair ==
    \E r \in RepairMissingHistory(Stored) :
        /\ Room(Stored, Len(r.repaired))
        /\ StoreOp("repair", hasKey \/ r.wrote, IF r.wrote THEN r.schema ELSE schema, "ok")

InitFresh ==
    StoreOp("init", TRUE, InitializeFreshDatabase(hasKey, schema, registry, isEmpty), "ok")

-----------------------------------------------------------------------------
(* Backup manager: the store path and the entries of its parent directory *)

\* what a checkpoint of the store holds: its data and the catalog's
\* current_version
Snap(data, version) == [data |-> data, version |-> version]

NoSnap == Snap(0, 0)

\* what is at the store path: a directory of store files (with or without a
\* stray .backup_metadata file), one regular file holding an archive, or a
\* directory left half removed or half copied
StorePath(kind, snap, extra) == [kind |-> kind, snap |-> snap, extra |-> extra]

Damaged == StorePath("damaged", NoSnap, FALSE)

BackupInfo(id, kind, originalDB, version) ==
    [Path |-> <<id, kind>>, OriginalDB |-> originalDB, Version |-> version]

NoInfo == BackupInfo(0, "none", "none", 0)

\* an entry of the parent directory named <store>.backup_<id>...: an archive
\* <id>.tar.gz, its sidecar <id>.tar.gz.metadata, or a directory <id> that
\* holds the .backup_metadata file once hasMeta is set
Entry(id, kind, modTime, snap, hasMeta, info) ==
    [id |-> id, kind |-> kind, modTime |-> modTime, snap |-> snap,
     hasMeta |-> hasMeta, info |-> info]

\* the last call of the manager: what it returned, the store it found,
\* whether the temporary copy was made and whether it is still on disk
NoLast ==
    [op |-> "none", ok |-> FALSE, err |-> "none", path |-> <<0, "none">>,
     info |-> NoInfo, before |-> StorePath("dir", NoSnap, FALSE),
     tempMade |-> FALSE, tempKept |-> FALSE]

\* NewBackupManager: compression on, at most two backups kept
NoBackups ==
    [compress |-> TRUE, maxBackups |-> 2, now |-> 0,
     store |-> StorePath("dir", NoSnap, FALSE),
     entries |-> {}, created |-> <<>>, last |-> NoLast]

\* int32(v) of a 64-bit v; versions count hundreds of seconds, and so do
\* the 2^31 and 2^32 of the conversion
ToInt32(v) == ((v + 21474836) % 42949672) - 21474836

\* the version CreateBackup records: ^int32(0) is -1, so the conversion is
\* made for negative versions only and every other version is recorded as 0
BackupVersion(currentVersion) ==
    IF currentVersion <= -1 THEN ToInt32(currentVersion) ELSE 0

\* the entries sorted by modification time, newest first; entries of equal
\* time in either order
NewestFirst(entries) ==
    {q \in Perms(entries) :
        \A i, j \in 1..Len(q) : i < j => q[i].modTime >= q[j].modTime}

\* performBackupCleanup: every entry whose name starts with
\* <store>.backup_ counts, the sidecars included; all but the maxBackups
\* newest are removed
performBackupCleanup(entries, maxBackups) ==
    IF maxBackups <= 0 THEN {entries}
    ELSE {{q[i] : i \in 1..(IF Len(q) < maxBackups THEN Len(q) ELSE maxBackups)} :
            q \in NewestFirst(entries)}

\* isValidBackup and readBackupMetadata of an entry: an archive needs its
\* sidecar, a directory its inner file; a sidecar is no backup
readBackupMetadata(entries, e) ==
    IF e.kind = "tar.gz"
    THEN {m.info : m \in {x \in entries : x.kind = "metadata" /\ x.id = e.id}}
    ELSE IF e.kind = "dir" /\ e.hasMeta THEN {e.info}
    ELSE {}

\* ListBackups: the metadata of every entry that has readable metadata
ListBackups(entries) == UNION {readBackupMetadata(entries, e) : e \in entries}

\* The outcomes of CreateBackup on b: the checkpoint may fail
\* (checkpointOk), and so may the write of the metadata (metadataOk). The
\* artifact is made, then the old entries are removed, then the metadata
\* is written.
CreateBackup(b, checkpointOk, metadataOk) ==
    LET id       == b.now + 1
        kind     == IF b.compress THEN "tar.gz" ELSE "dir"
        info     == BackupInfo(id, kind, "db", BackupVersion(b.store.snap.version))
        artifact == Entry(id, kind, b.now + 1, b.store.snap, FALSE, NoInfo)
        call     == [NoLast EXCEPT !.op = "create", !.path = <<id, kind>>,
                                   !.before = b.store]
    IN  IF ~checkpointOk
        THEN {[b EXCEPT !.now = b.now + 2,
                        !.last = [call EXCEPT !.err = "failed to create backup"]]}
        ELSE {LET written ==
                     IF ~metadataOk THEN kept
                     ELSE IF b.compress
                          THEN kept \cup {Entry(id, "metadata", b.now + 2, NoSnap, FALSE, info)}
                          ELSE (kept \ {artifact}) \cup
                                {Entry(id, kind, b.now + 2, b.store.snap, TRUE, info)}
              IN  [b EXCEPT !.now = b.now + 2,
                            !.entries = written,
                            !.created = IF metadataOk THEN Append(@, id) ELSE @,
                            !.last = [call EXCEPT
                                        !.ok = metadataOk,
                                        !.err = IF metadataOk THEN "none"
                                                ELSE "failed to write backup metadata",
                                        !.info = IF metadataOk THEN info ELSE NoInfo]] :
                kept \in performBackupCleanup(b.entries \cup {artifact}, b.maxBackups)}

\* backups outside the parent directory: one made for another store path
Elsewhere ==
    {Entry(0, "dir", 0, NoSnap, TRUE, BackupInfo(0, "dir", "other", 0))}

\* copyDatabaseFiles(backupPath, dbPath) onto the removed store path: the
\* files of a backup directory, its .backup_metadata among them, are copied
\* into a new directory; an archive is one regular file and is copied to
\* the store path as that file
copyDatabaseFiles(e) ==
    IF e.kind = "dir" THEN StorePath("dir", e.snap, e.hasMeta)
    ELSE StorePath("file", e.snap, FALSE)

\* The outcomes of RestoreBackup(path). The deferred function removes the
\* temporary copy when the function's variable err is nil: the failure to
\* remove the store is held by a variable of the if statement, so the copy
\* is removed on that return as on success; a failed copy sets err and the
\* temporary copy stays.
RestoreBackup(b, path, removeOk, copyOk, recoverOk) ==
    LET found == {e \in b.entries \cup Elsewhere :
                     <<e.id, e.kind>> = path /\ e.kind # "metadata"}
        call  == [NoLast EXCEPT !.op = "restore", !.path = path, !.before = b.store]
    IN  IF found = {} \/ \A e \in found : readBackupMetadata(b.entries, e) = {}
        THEN {[b EXCEPT !.last = [call EXCEPT !.err = "invalid backup"]]}
        ELSE LET e    == CHOOSE x \in found : TRUE
                 info == CHOOSE i \in readBackupMetadata(b.entries, e) : TRUE
                 made == [call EXCEPT !.tempMade = TRUE, !.info = info]
             IN  IF info.OriginalDB # "db"
                 THEN {[b EXCEPT !.last = [call EXCEPT !.err = "backup is for another database"]]}
                 ELSE IF ~removeOk
                 THEN {[b EXCEPT !.store = st,
                                 !.last = [made EXCEPT
                                    !.err = "failed to remove current database",
                                    !.tempKept = FALSE]] :
                          st \in {b.store, Damaged}}
                 ELSE IF ~copyOk
                 THEN {[b EXCEPT !.store = IF recoverOk THEN b.store ELSE Damaged,
                                 !.last = [made EXCEPT
                                    !.err = IF recoverOk
                                            THEN "restore failed but database recovered"
                                            ELSE "restore failed and recovery failed",
                                    !.tempKept = TRUE]]}
                 ELSE {[b EXCEPT !.store = copyDatabaseFiles(e),
                                 !.last = [made EXCEPT !.ok = TRUE, !.tempKept = FALSE]]}

-----------------------------------------------------------------------------
(* Registries the engine runs over     *)

IdX   == <<17549173, "x">>
IdY   == <<17549172, "y">>
IdFix == <<17549172, "fix", "rollback">>
IdZ   == <<17550000, "z">>

\* x is rerunnable; y is older than x, depends on it, has a Validate callback
\* and is not rerunnable
RegistryChain ==
    RegisterAll(NewMigrationRegistry,
                <<Mig(IdX, <<>>, TRUE, FALSE), Mig(IdY, <<IdX>>, FALSE, TRUE)>>)

\* a migration whose description ends in "_rollback"
RegistrySuffix ==
    RegisterAll(NewMigrationRegistry,
                <<Mig(IdFix, <<>>, FALSE, FALSE), Mig(IdZ, <<>>, TRUE, FALSE)>>)

\* no call of Register yet
NoCall ==
    [called |-> FALSE, m |-> Mig(<<>>, <<>>, FALSE, FALSE), ok |-> FALSE,
     before |-> <<>>, accepted |-> <<>>]

\* no migration registered
RegistryNone == NewMigrationRegistry

EngineRegistries == {RegistryChain, RegistrySuffix, RegistryNone}

\* a store without the reserved key, empty or holding other data
EngineStart ==
    /\ registry \in EngineRegistries
    /\ hasKey = FALSE
    /\ isEmpty \in BOOLEAN
    /\ schema = ZeroSchema
    /\ pc = "idle" /\ op = NoOp /\ plan = <<>> /\ idx = 0
    /\ up = TRUE /\ cb = "none" /\ calls = <<>>
    /\ pre \in {[hasKey |-> FALSE, isEmpty |-> isEmpty, schema |-> ZeroSchema]}
    /\ result = "none" /\ backups = 0 /\ dg = NoDowngrade
    /\ tsApplied = {} /\ tsResult = [ok |-> FALSE, err |-> "not run", sorted |-> <<>>, nodes |-> {}]
    /\ regCall = NoCall
    /\ bk = NoBackups

Init == EngineStart /\ limit = MaxHistory

Next ==
    \/ ExecuteUpgrade
    \/ ExecuteDowngrade
    \/ ExecuteRerun
    \/ CheckAndRun
    \/ CallbackFails
    \/ ValidateInvoked
    \/ MigrationCommitted
    \/ RollbackCommitted
    \/ RerunReapplies
    \/ RerunCommitted
    \/ Crash
    \/ ForceClean
    \/ Repair
    \/ InitFresh

Spec == Init /\ [][Next]_vars

\* a callback that has been invoked returns, unless the process dies
FairSpec ==
    Spec /\ WF_vars(ValidateInvoked \/ MigrationCommitted \/ RollbackCommitted
                    \/ RerunReapplies \/ RerunCommitted)

\* InitializeFreshDatabase and Execute alone, every callback returning
\* success or an error: no crash, no startup path, no repair by hand
InitExecute == EngineStart /\ limit = MaxRunHistory

NextExecute ==
    \/ InitFresh
    \/ ExecuteUpgrade
    \/ ExecuteDowngrade
    \/ ExecuteRerun
    \/ CallbackFails
    \/ ValidateInvoked
    \/ MigrationCommitted
    \/ RollbackCommitted
    \/ RerunReapplies
    \/ RerunCommitted

SpecExecute == InitExecute /\ [][NextExecute]_vars

-----------------------------------------------------------------------------
(* Registries the planner runs over     *)

MaxDeps == 2

IdA == <<10000000, "a">>
IdB == <<20000000, "b">>
IdC == <<20000000, "c">>
IdGhost == <<15000000, "ghost">>

IdFirst  == <<10000000, "first">>
IdSecond == <<20000000, "second">>
IdThird  == <<15000000, "third">>
IdFourth == <<30000000, "fourth">>

IdBase  == <<10000000, "base">>
IdLeft  == <<20000000, "left">>
IdRight == <<15000000, "right">>
IdMerge == <<30000000, "merge">>

RECURSIVE SetToSeq(_)
SetToSeq(S) ==
    IF S = {} THEN <<>>
    ELSE LET x == CHOOSE y \in S : TRUE IN <<x>> \o SetToSeq(S \ {x})

DepChoices ==
    {SetToSeq(D) : D \in {E \in SUBSET {IdA, IdB, IdC, IdGhost} : Cardinality(E) <= MaxDeps}}

\* every dependency graph over a, b and c (b and c share a version), with
\* dependencies on themselves and on the unregistered ghost included
GeneratedRegistries ==
    {RegisterAll(NewMigrationRegistry,
                 <<Mig(IdC, dc, FALSE, FALSE), Mig(IdA, da, FALSE, FALSE),
                   Mig(IdB, db, FALSE, FALSE)>>) :
        da \in DepChoices, db \in DepChoices, dc \in DepChoices}

\* ordering_test.go, TestMigrationOrdering
ScenarioOrdering ==
    RegisterAll(NewMigrationRegistry,
                <<Mig(IdFirst, <<>>, FALSE, FALSE), Mig(IdSecond, <<>>, FALSE, FALSE),
                  Mig(IdThird, <<IdSecond>>, FALSE, FALSE),
                  Mig(IdFourth, <<IdFirst>>, FALSE, FALSE)>>)

\* ordering_test.go, TestMigrationOrderingComplexDependencies
ScenarioDiamond ==
    RegisterAll(NewMigrationRegistry,
                <<Mig(IdBase, <<>>, FALSE, FALSE), Mig(IdLeft, <<IdBase>>, FALSE, FALSE),
                  Mig(IdRight, <<IdBase>>, FALSE, FALSE),
                  Mig(IdMerge, <<IdLeft, IdRight>>, FALSE, FALSE)>>)

PlannerRegistries == GeneratedRegistries \cup {ScenarioOrdering, ScenarioDiamond}

NoResult == [ok |-> FALSE, err |-> "not run", sorted |-> <<>>, nodes |-> {}]

EngineIdle ==
    /\ hasKey = FALSE /\ isEmpty = FALSE /\ schema = ZeroSchema
    /\ pc = "idle" /\ op = NoOp /\ plan = <<>> /\ idx = 0
    /\ up = TRUE /\ cb = "none" /\ calls = <<>>
    /\ pre \in {[hasKey |-> FALSE, isEmpty |-> isEmpty, schema |-> ZeroSchema]}
    /\ result = "none" /\ backups = 0 /\ dg = NoDowngrade
    /\ limit = 0
    /\ regCall = NoCall

InitPlanner ==
    /\ registry \in PlannerRegistries
    /\ tsApplied \in SUBSET (RegistryIDs(registry) \cup {IdGhost})
    /\ tsResult = NoResult
    /\ bk = NoBackups
    /\ EngineIdle

\* one call of GetPendingMigrations(tsApplied)
CallGetPending ==
    /\ tsResult = NoResult
    /\ tsResult' \in GetPendingMigrations(registry, tsApplied)
    /\ UNCHANGED <<registry, limit, tsApplied, regCall, bk, engineVars>>

NextPlanner == CallGetPending

SpecPlanner == InitPlanner /\ [][NextPlanner]_vars

-----------------------------------------------------------------------------
(* Registration: calls of Register on a new registry *)

\* "946684800_min" and "4102444800_max", the ends of the accepted range
IdMin == <<MinVersion, "min">>
IdMax == <<MaxVersion, "max">>

\* one below and one above the accepted range
IdOld  == <<MinVersion - 1, "old">>
IdLate == <<MaxVersion + 1, "late">>

\* migration_test.go, TestMigrationIDValidation: "1754917200", "abc_test",
\* "1754917200_", "1754917200_test migration", "1754917200_test@migration"
IdNoUnderscore == <<17549172>>
IdNotNumeric   == <<NotANumber, "test">>
IdNoText       == <<17549172, "">>
IdSpace        == <<17549172, "test migration">>
IdAtSign       == <<17549172, "test@migration">>

\* the migrations handed to Register: Version is whatever the caller left
\* in the struct, Up and Down may be nil
Candidates ==
    {Mig(id, <<>>, FALSE, FALSE) :
        id \in {IdA, IdB, IdC, IdMin, IdMax, IdOld, IdLate, <<>>,
                IdNoUnderscore, IdNotNumeric, IdNoText, IdSpace, IdAtSign}}
    \cup {[Mig(IdA, <<>>, FALSE, FALSE) EXCEPT !.Up = FALSE],
          [Mig(IdB, <<>>, FALSE, FALSE) EXCEPT !.Down = FALSE],
          [Mig(IdC, <<>>, FALSE, FALSE) EXCEPT !.Version = MaxVersion]}

InitRegister ==
    /\ registry = NewMigrationRegistry
    /\ tsApplied = {} /\ tsResult = NoResult
    /\ bk = NoBackups
    /\ EngineIdle

\* one call of Register(m)
CallRegister(m) ==
    /\ Len(regCall.accepted) < MaxRegistered
    /\ registry' = Register(registry, m)
    /\ regCall' = [called |-> TRUE, m |-> m,
                   ok |-> RegisterError(registry, m) = "none",
                   before |-> registry,
                   accepted |-> IF RegisterError(registry, m) = "none"
                                THEN Append(regCall.accepted, m)
                                ELSE regCall.accepted]
    /\ UNCHANGED <<limit, tsApplied, tsResult, bk, engineVars>>

NextRegister == \E m \in Candidates : CallRegister(m)

SpecRegister == InitRegister /\ [][NextRegister]_vars

-----------------------------------------------------------------------------
(* Backups: calls of the backup manager on one store path *)

\* the current_version the store has with the data d: none at first, then
\* a migration of 2025, then the ends of the accepted range
VersionAt(d) ==
    IF d = 0 THEN 0
    ELSE IF d = 1 THEN 17549172
    ELSE IF d = 2 THEN MaxVersion
    ELSE MinVersion

Contents == {Snap(d, VersionAt(d)) : d \in 0..MaxContents}

InitBackup ==
    /\ registry = NewMigrationRegistry
    /\ tsApplied = {} /\ tsResult = NoResult /\ regCall = NoCall
    /\ EngineIdle
    /\ \E c \in BOOLEAN, n \in 1..MaxRetention, snap \in Contents :
          bk = [NoBackups EXCEPT !.compress = c, !.maxBackups = n,
                                 !.store = StorePath("dir", snap, FALSE)]

\* the store is written between two calls of the manager
WriteStore ==
    /\ bk.store.kind = "dir"
    /\ \E snap \in Contents \ {bk.store.snap} :
          bk' = [bk EXCEPT !.store = [@ EXCEPT !.snap = snap], !.last = NoLast]
    /\ UNCHANGED <<registry, limit, tsApplied, tsResult, regCall, engineVars>>

\* one call of CreateBackup on the open store
CallCreateBackup ==
    /\ bk.store.kind = "dir"
    /\ bk.now < 2 * MaxCreated
    /\ \E checkpointOk, metadataOk \in BOOLEAN :
          bk' \in CreateBackup(bk, checkpointOk, metadataOk)
    /\ UNCHANGED <<registry, limit, tsApplied, tsResult, regCall, engineVars>>

\* the paths handed to RestoreBackup: an entry of the parent directory, a
\* backup kept elsewhere, or a path where nothing is
RestorePaths ==
    {<<e.id, e.kind>> : e \in bk.entries \cup Elsewhere} \cup {<<0, "tar.gz">>}

\* one call of RestoreBackup(path)
CallRestoreBackup ==
    /\ \E path \in RestorePaths :
          \E removeOk, copyOk, recoverOk \in BOOLEAN :
             bk' \in RestoreBackup(bk, path, removeOk, copyOk, recoverOk)
    /\ UNCHANGED <<registry, limit, tsApplied, tsResult, regCall, engineVars>>

NextBackup == WriteStore \/ CallCreateBackup \/ CallRestoreBackup

SpecBackup == InitBackup /\ [][NextBackup]_vars

-----------------------------------------------------------------------------
(* Planner claims *)

Pending(r, applied) == {m \in Range(r) : m.ID \notin applied}

PendingDeps(m, r, applied) ==
    {d \in Range(m.Dependencies) : d \in {x.ID : x \in Pending(r, applied)}}

\* C6: a sequence returned by GetPending holds every registered migration
\* that is not applied exactly once and nothing else, and every migration
\* comes after all of its declared dependencies that are still pending.
C6_PendingComplete ==
    tsResult.ok =>
        /\ Range(tsResult.sorted) = Pending(registry, tsApplied)
        /\ Len(tsResult.sorted) = Cardinality(Pending(registry, tsApplied))
        /\ \A i \in 1..Len(tsResult.sorted) :
              \A d \in PendingDeps(tsResult.sorted[i], registry, tsApplied) :
                 \E j \in 1..(i-1) : tsResult.sorted[j].ID = d

\* a returned sequence in which a dependency forces a newer migration ahead
\* of an older one
C6_Witness ==
    /\ tsResult.ok
    /\ \E i, j \in 1..Len(tsResult.sorted) :
          /\ i < j
          /\ tsResult.sorted[i].Version > tsResult.sorted[j].Version
          /\ tsResult.sorted[i].ID \in Range(tsResult.sorted[j].Dependencies)

\* the pending migrations not emitted before position k whose pending
\* dependencies have all been emitted before position k
ReadyAt(sorted, k, r, applied) ==
    {m \in Pending(r, applied) :
        /\ \A j \in 1..(k-1) : sorted[j].ID # m.ID
        /\ \A d \in PendingDeps(m, r, applied) : \E j \in 1..(k-1) : sorted[j].ID = d}

IDsOf(sorted) == [i \in 1..Len(sorted) |-> sorted[i].ID]

\* C7: at every position of a returned sequence the emitted migration has
\* the smallest version among the ready ones; the two documented registries
\* give [first, second, third, fourth] and [base, right, left, merge].
C7_MinVersionReady ==
    tsResult.ok =>
        /\ \A k \in 1..Len(tsResult.sorted) :
              \A m \in ReadyAt(tsResult.sorted, k, registry, tsApplied) :
                 tsResult.sorted[k].Version <= m.Version
        /\ (registry = ScenarioOrdering /\ tsApplied = {}) =>
              IDsOf(tsResult.sorted) = <<IdFirst, IdSecond, IdThird, IdFourth>>
        /\ (registry = ScenarioDiamond /\ tsApplied = {}) =>
              IDsOf(tsResult.sorted) = <<IdBase, IdRight, IdLeft, IdMerge>>

\* the diamond has been ordered with nothing applied
C7_Witness ==
    /\ tsResult.ok
    /\ registry = ScenarioDiamond
    /\ tsApplied = {}
    /\ Len(tsResult.sorted) = 4

\* C8: a call of GetPending returns the sequence every other call with the
\* same registry and applied set returns, also when ready migrations share
\* a version.
C8_Deterministic ==
    tsResult.ok =>
        \A other \in GetPendingMigrations(registry, tsApplied) :
            other.sorted = tsResult.sorted

-----------------------------------------------------------------------------
(* Catalog and engine claims *)

History == Stored.MigrationHistory

Applied == Stored.AppliedMigrations

\* C1: every applied identifier has a successful record in the history that
\* is not a rollback record.
C1_AppliedHaveSuccessRecord ==
    \A id \in Applied :
        \E i \in 1..Len(History) :
            /\ History[i].ID = id
            /\ History[i].Success
            /\ ~isRollbackRecord(History[i].ID)

\* Execute has returned from a plan it really executed
ExecuteReturned ==
    /\ pc = "idle"
    /\ op.via = "execute"
    /\ ~op.dryRun
    /\ result \in {"ok", "callback failed"}

\* C2: when Execute returns, with success or with the error of a failing
\* callback, the status is neither migrating nor rollback; an empty upgrade
\* or downgrade plan leaves the status clean.
C2_NoStartedStatusOnReturn ==
    ExecuteReturned =>
        /\ Stored.Status \notin {"migrating", "rollback"}
        /\ (plan = <<>> /\ result = "ok") => Stored.Status = "clean"

\* the process died while an Up callback of an upgrade plan was executing
DiedDuringUp ==
    /\ result = "crashed"
    /\ op.type = "upgrade"
    /\ cb = "Up"

\* C3: if the process dies while the Up of any migration of an upgrade plan
\* is executing, the catalog has status migrating and the migration is not in
\* the applied set.
C3_CrashLeavesMigrating ==
    DiedDuringUp =>
        /\ Stored.Status = "migrating"
        /\ plan[idx].ID \notin Applied

\* the catalog an operation found: the stored record at its start, after the
\* initialization CheckAndRun begins with
Found ==
    IF op.via = "checkandrun"
    THEN InitializeFreshDatabase(pre.hasKey, pre.schema, registry, pre.isEmpty)
    ELSE GetSchemaVersion(pre.hasKey, pre.schema)

\* CheckAndRun found status migrating and a head of the pending plan that is
\* not rerunnable
FoundStuckNotRerunnable ==
    /\ op.via = "checkandrun"
    /\ pre.hasKey
    /\ pre.schema.Status = "migrating"
    /\ \A p \in PlanUpgrade(registry, pre.schema) :
          p.ok /\ Len(p.sorted) > 0 /\ ~p.sorted[1].Rerunnable

\* C4: when CheckAndRun finds status migrating and the head of the pending
\* plan is not rerunnable, it returns the "not marked as rerunnable" error,
\* invokes no callback and leaves the whole catalog record as it was.
C4_NotRerunnableLeftUntouched ==
    FoundStuckNotRerunnable =>
        /\ pc = "idle"
        /\ result = "not rerunnable"
        /\ calls = <<>>
        /\ hasKey /\ schema = pre.schema
        /\ Stored.Status = "migrating"

C4_Witness ==
    /\ FoundStuckNotRerunnable
    /\ result = "not rerunnable"
    /\ Applied # {}

\* CheckAndRun was called with RunMigrations on a catalog with status
\* migrating whose pending plan has a rerunnable head
FoundStuckRerunnable ==
    /\ op.via = "checkandrun"
    /\ op.run
    /\ pre.hasKey
    /\ pre.schema.Status = "migrating"
    /\ \A p \in PlanUpgrade(registry, pre.schema) :
          p.ok /\ Len(p.sorted) > 0 /\ p.sorted[1].Rerunnable

UpCalls(id) == {i \in 1..Len(calls) : calls[i] = Call("Up", id)}

AppliedVersions == {ParseMigrationVersion(id) : id \in Applied}

\* what CheckAndRun leaves when it returns success after a recovery
RecoveredAndCurrent ==
    /\ Stored.Status = "clean"
    /\ \A m \in Pending(registry, pre.schema.AppliedMigrations) :
          /\ m.ID \in Applied
          /\ Cardinality(UpCalls(m.ID)) = 1
    /\ \A i \in 1..Len(calls) :
          calls[i].cb = "Up" =>
             calls[i].id \in {m.ID : m \in Pending(registry, pre.schema.AppliedMigrations)}
    /\ Stored.CurrentVersion = MaxOf(AppliedVersions)

\* what can keep the recovered run from succeeding: a callback fails, the
\* process dies, or the free-space check or the backup fails
Interrupted == result \in {"callback failed", "crashed", "disk space", "backup failed"}

\* C5: CheckAndRun with RunMigrations on a migrating catalog with a
\* rerunnable head returns; unless interrupted it returns success with status
\* clean, every pending migration applied, its Up invoked exactly once, and
\* current_version the maximum applied version.
C5_RecoveryCompletes ==
    /\ []((FoundStuckRerunnable /\ pc = "idle" /\ ~Interrupted) =>
             (result = "ok" /\ op.recovered /\ RecoveredAndCurrent))
    /\ ((FoundStuckRerunnable /\ pc = "run") ~> (pc = "idle"))

C5_Witness ==
    /\ FoundStuckRerunnable
    /\ pc = "idle"
    /\ result = "ok"
    /\ Len(plan) = 2
    /\ Stored.Status = "clean"

\* the success records of the first n migrations of the plan
Committed(n) == [j \in 1..n |-> MigrationRecord(plan[j].ID, TRUE)]

\* an upgrade step has failed: Up or Validate returned an error
UpgradeStepFailed ==
    /\ pc = "idle"
    /\ op.type = "upgrade"
    /\ result = "callback failed"

\* C9: after a failed upgrade step the status is dirty, a failure record for
\* the migration is appended, the migration is not applied, the applied set
\* and current_version are as the last committed migration left them, and no
\* callback of a later migration was invoked.
C9_FailedStepMarksDirty ==
    UpgradeStepFailed =>
        /\ Stored.Status = "dirty"
        /\ History = Found.MigrationHistory \o Committed(idx - 1)
                        \o <<MigrationRecord(plan[idx].ID, FALSE)>>
        /\ plan[idx].ID \notin Applied
        /\ Applied = Found.AppliedMigrations \cup {plan[j].ID : j \in 1..(idx - 1)}
        /\ Stored.CurrentVersion =
              MaxOf({Found.CurrentVersion} \cup {plan[j].Version : j \in 1..(idx - 1)})
        /\ \A i \in 1..Len(calls) : calls[i].id \in {plan[j].ID : j \in 1..idx}

\* the Validate of the second migration failed after the first was committed
C9_Witness ==
    /\ UpgradeStepFailed
    /\ idx = 2
    /\ cb = "Validate"

RECURSIVE CallsUpTo(_, _, _)
\* the callbacks a strictly sequential upgrade has invoked when the callback
\* c of the n-th migration of the plan p is executing
CallsUpTo(p, n, c) ==
    IF n = 0 THEN <<>>
    ELSE CallsUpTo(p, n - 1, IF p[n - 1].Validate THEN "Validate" ELSE "Up")
            \o <<Call("Up", p[n].ID)>>
            \o (IF c = "Validate" THEN <<Call("Validate", p[n].ID)>> ELSE <<>>)

UpgradeRunning == pc = "run" /\ op.type = "upgrade"

\* C10: an upgrade is strictly sequential with per-step commit: while the
\* callbacks of the k-th migration execute, the callbacks invoked so far are
\* those of the first k migrations in plan order, the first k-1 are committed
\* to the applied set and the k-th is not; every catalog write of the upgrade
\* adds at most one ID, the one whose callbacks have just returned.
C10_SequentialCommit ==
    /\ [](UpgradeRunning =>
            /\ calls = CallsUpTo(plan, idx, cb)
            /\ \A j \in 1..(idx - 1) : plan[j].ID \in Applied
            /\ plan[idx].ID \notin Applied)
    /\ [][UpgradeRunning =>
            \/ Stored'.AppliedMigrations = Applied
            \/ /\ Stored'.AppliedMigrations = Applied \cup {plan[idx].ID}
               /\ cb = (IF plan[idx].Validate THEN "Validate" ELSE "Up")]_vars

\* the Up of the second migration is executing
C10_Witness ==
    /\ UpgradeRunning
    /\ idx = 2
    /\ cb = "Up"

-----------------------------------------------------------------------------
(* Execute: preconditions, backup and dry run *)

\* the record the store held when the operation started
Origin == GetSchemaVersion(pre.hasKey, pre.schema)

CatalogUntouched == hasKey = pre.hasKey /\ schema = pre.schema

\* Execute was called, not as a dry run, on a catalog that is not clean
CalledNotClean ==
    /\ op.via = "execute"
    /\ op.type \in {"upgrade", "downgrade", "rerun"}
    /\ ~op.dryRun
    /\ result # "plan failed"
    /\ Origin.Status \in {"dirty", "migrating", "rollback"}

\* C11: Execute of a non-dry-run upgrade, downgrade or rerun plan on a
\* catalog whose status is dirty, migrating or rollback returns an error,
\* invokes no migration callback and leaves the catalog record as it was.
C11_NotCleanRefused ==
    CalledNotClean =>
        /\ pc = "idle"
        /\ result \in {"validation failed", "backup failed"}
        /\ calls = <<>>
        /\ CatalogUntouched

\* a downgrade of a non-empty plan was refused on a dirty catalog
C11_Witness ==
    /\ CalledNotClean
    /\ op.type = "downgrade"
    /\ plan # <<>>
    /\ Origin.Status = "dirty"
    /\ result = "validation failed"

\* Execute was called with backups enabled on a plan that is not empty
BackupDue ==
    /\ op.via = "execute"
    /\ op.type \in {"upgrade", "downgrade", "rerun"}
    /\ ~op.dryRun
    /\ op.backup
    /\ plan # <<>>

\* C12: with backups enabled and a non-empty plan, no callback is invoked
\* and no catalog write is made unless the backup has been created; when
\* the backup fails, Execute returns an error, the catalog record is
\* unchanged and no callback was invoked.
C12_BackupFirst ==
    BackupDue =>
        /\ (calls # <<>> \/ ~CatalogUntouched) => backups = 1
        /\ result = "backup failed" =>
              /\ pc = "idle" /\ backups = 0 /\ calls = <<>> /\ CatalogUntouched

\* the backup of an upgrade on a clean catalog failed
C12_Witness ==
    /\ BackupDue
    /\ op.type = "upgrade"
    /\ result = "backup failed"
    /\ Origin.Status = "clean"

\* C13: a dry-run Execute creates no backup, invokes no callback and writes
\* nothing: the catalog record is the one found, whatever its status.
C13_DryRunTouchesNothing ==
    (op.via = "execute" /\ op.dryRun) =>
        /\ pc = "idle"
        /\ result \in {"ok", "plan failed"}
        /\ backups = 0
        /\ calls = <<>>
        /\ CatalogUntouched

\* a dry run with backups enabled of a non-empty plan on a dirty catalog
C13_Witness ==
    /\ op.via = "execute" /\ op.dryRun /\ op.backup
    /\ plan # <<>>
    /\ Origin.Status = "dirty"
    /\ result = "ok"

-----------------------------------------------------------------------------
(* Catalog invariants under InitializeFreshDatabase and Execute *)

\* the versions parsed from the applied identifiers
ParsedVersions == {ParseMigrationVersion(id) : id \in Applied} \ {ParseError}

\* C14: current_version is the largest version parsed from the identifiers
\* of the applied set, and 0 when the set is empty.
C14_CurrentVersionIsMax ==
    Stored.CurrentVersion = MaxOf(ParsedVersions)

\* a downgrade has rolled back a part of the applied migrations
C14_Witness ==
    /\ pc = "idle" /\ op.type = "downgrade" /\ ~op.dryRun
    /\ result = "ok"
    /\ plan # <<>>
    /\ Applied # {}

\* C15: every identifier of the applied set is the ID of a registered
\* migration.
C15_AppliedAreRegistered ==
    Applied \subseteq RegistryIDs(registry)

\* Execute(PlanDowngrade(v)) has returned success
DowngradeDone ==
    /\ pc = "idle"
    /\ op.type = "downgrade" /\ op.via = "execute" /\ ~op.dryRun
    /\ result = "ok"

\* C16: when Execute(PlanDowngrade(v0)) succeeds right after a successful
\* Execute(PlanUpgrade()) that started from current_version v0, the
\* current_version, the applied set and the status are those the upgrade
\* started from, and the history has grown by the success records of the
\* upgrade followed by one rollback record for each of its migrations.
C16_RoundTrip ==
    (DowngradeDone /\ dg.roundTrip) =>
        LET n     == Len(dg.upgraded)
            old   == Len(dg.origin.MigrationHistory)
        IN  /\ Stored.CurrentVersion = dg.origin.CurrentVersion
            /\ Applied = dg.origin.AppliedMigrations
            /\ Stored.Status = dg.origin.Status
            /\ Len(History) = old + 2 * n
            /\ SubSeq(History, 1, old) = dg.origin.MigrationHistory
            /\ \A i \in 1..n : History[old + i] = MigrationRecord(dg.upgraded[i], TRUE)
            /\ {History[old + n + i] : i \in 1..n} =
                  {MigrationRecord(Append(dg.upgraded[i], "rollback"), TRUE) : i \in 1..n}

-----------------------------------------------------------------------------
(* Plans *)

UpTo(ms, v) == SelectSeq(ms, LAMBDA m : m.Version <= v)

\* C17: PlanUpgradeTo(v) is the plan of PlanUpgrade() restricted to the
\* migrations of version at most v, in the same relative order, and the
\* empty plan when current_version >= v.
C17_UpgradeToIsFilteredUpgrade ==
    pc = "idle" =>
        \A v \in Targets :
            LET full == {p \in PlanUpgrade(registry, Stored) : p.ok}
            IN  full # {} =>
                  {q.sorted : q \in PlanUpgradeTo(registry, Stored, v)} =
                     IF Stored.CurrentVersion >= v THEN {<<>>}
                     ELSE {UpTo(p.sorted, v) : p \in full}

\* C18: PlanDowngrade(v) holds exactly the applied identifiers of version
\* above v, newest first, and nothing when current_version <= v; when its
\* execution has succeeded, no applied identifier has a version above v and
\* current_version <= v.
C18_DowngradeSelectsAbove ==
    /\ pc = "idle" =>
          \A v \in Targets : \A q \in PlanDowngrade(registry, Stored, v) :
              /\ Stored.CurrentVersion <= v => q.sorted = <<>>
              /\ {q.sorted[i].ID : i \in 1..Len(q.sorted)} =
                    {id \in Applied : ParseMigrationVersion(id) > v}
              /\ \A i, j \in 1..Len(q.sorted) :
                    i < j => q.sorted[i].Version >= q.sorted[j].Version
    /\ DowngradeDone =>
          /\ \A id \in Applied : ParseMigrationVersion(id) <= dg.target
          /\ Stored.CurrentVersion <= dg.target

-----------------------------------------------------------------------------
(* Downgrade steps *)

\* C19: a downgrade invokes the Down callbacks of its plan in plan order and
\* no Up and no Validate callback; while the Down of the k-th entry
\* executes, the entries before it have left the applied set.
C19_DowngradeInvokesOnlyDown ==
    (op.type = "downgrade") =>
        /\ \A i \in 1..Len(calls) : calls[i].cb = "Down"
        /\ Len(calls) <= Len(plan)
        /\ \A i \in 1..Len(calls) : calls[i].id = plan[i].ID
        /\ pc = "run" => /\ Len(calls) = idx
                         /\ \A j \in 1..(idx - 1) : plan[j].ID \notin Applied

\* the rollback records of the first k entries of the plan
RolledBack(k) ==
    [j \in 1..k |-> MigrationRecord(Append(plan[j].ID, "rollback"), TRUE)]

\* a Down callback of a downgrade returned an error
DownFailed ==
    /\ pc = "idle"
    /\ op.type = "downgrade"
    /\ result = "callback failed"
    /\ cb = "Down"

\* C20: when the Down of a plan entry fails, Execute returns an error, the
\* history ends with a failure record under the entry's ID suffixed
\* "_rollback", the status is dirty, the entry is still applied, the
\* applied set and current_version are as the last committed rollback left
\* them, and no callback of a later entry was invoked.
C20_FailedDownMarksDirty ==
    /\ [](DownFailed =>
            /\ Stored.Status = "dirty"
            /\ History = Origin.MigrationHistory \o RolledBack(idx - 1)
                            \o <<MigrationRecord(Append(plan[idx].ID, "rollback"), FALSE)>>
            /\ plan[idx].ID \in Applied
            /\ Applied = Origin.AppliedMigrations \ {plan[j].ID : j \in 1..(idx - 1)}
            /\ \A i \in 1..Len(calls) : calls[i].id \in {plan[j].ID : j \in 1..idx})
    /\ [][(pc = "run" /\ op.type = "downgrade" /\ cb = "Down"
            /\ result' = "callback failed") =>
              /\ Stored'.CurrentVersion = Stored.CurrentVersion
              /\ Stored'.AppliedMigrations = Applied
              /\ calls' = calls]_vars

\* the Down of the first of two entries failed
C20_Witness ==
    /\ DownFailed
    /\ Len(plan) = 2
    /\ idx = 1

-----------------------------------------------------------------------------
(* Rerun *)

\* the callbacks of a rerun of m, in the order Down, Up, Validate
RerunCalls(m) ==
    <<Call("Down", m.ID), Call("Up", m.ID)>>
        \o (IF m.Validate THEN <<Call("Validate", m.ID)>> ELSE <<>>)

\* C21: a rerun invokes the callbacks of its one migration in the order
\* Down, Up, Validate, the Validate once and after the Up; a rerun plan that
\* does not hold exactly one migration is rejected with no callback and no
\* catalog write.
C21_RerunOrder ==
    (op.type = "rerun") =>
        /\ Len(plan) # 1 => (pc = "idle" /\ calls = <<>> /\ CatalogUntouched)
        /\ Len(plan) = 1 =>
              /\ Len(calls) <= Len(RerunCalls(plan[1]))
              /\ calls = SubSeq(RerunCalls(plan[1]), 1, Len(calls))

\* Execute(PlanRerun(id)) has returned success
RerunDone ==
    /\ pc = "idle"
    /\ op.type = "rerun" /\ op.via = "execute" /\ ~op.dryRun
    /\ result = "ok"

\* C22: a successful rerun of a registered migration leaves current_version
\* as it found it, ends with status clean and appends exactly one record:
\* the success record of the migration's ID suffixed "_rerun".
C22_RerunKeepsVersion ==
    RerunDone =>
        /\ Stored.CurrentVersion = Origin.CurrentVersion
        /\ Stored.Status = "clean"
        /\ History = Append(Origin.MigrationHistory,
                            MigrationRecord(Append(plan[1].ID, "rerun"), TRUE))

-----------------------------------------------------------------------------
(* Initialization of the catalog *)

\* InitializeFreshDatabase has returned
InitDone == pc = "idle" /\ op.type = "init"

\* C23: InitializeFreshDatabase changes nothing when the reserved key is
\* present; on a store without any key it writes a clean record with every
\* registered migration applied, one success record each, current_version
\* the largest registered version (0 for an empty registry), and nothing is
\* pending; on a store that holds other keys it writes the zero record, and
\* every registered migration is pending.
C23_InitClassifiesStore ==
    InitDone =>
        /\ hasKey
        /\ pre.hasKey => schema = pre.schema
        /\ (~pre.hasKey /\ pre.isEmpty) =>
              /\ schema.Status = "clean"
              /\ schema.AppliedMigrations = RegistryIDs(registry)
              /\ Len(schema.MigrationHistory) = Len(registry)
              /\ Range(schema.MigrationHistory) =
                    {MigrationRecord(id, TRUE) : id \in RegistryIDs(registry)}
              /\ schema.CurrentVersion =
                    MaxOf({ParseMigrationVersion(id) : id \in RegistryIDs(registry)})
              /\ Pending(registry, schema.AppliedMigrations) = {}
        /\ (~pre.hasKey /\ ~pre.isEmpty) =>
              /\ schema = ZeroSchema
              /\ Pending(registry, schema.AppliedMigrations) = Range(registry)

\* a store that holds data and no reserved key was initialized, migrations
\* being registered
C23_Witness ==
    /\ InitDone
    /\ ~pre.hasKey /\ ~pre.isEmpty
    /\ registry # <<>>

-----------------------------------------------------------------------------
(* Startup integration: what CheckAndRun refuses *)

PendingFound == Pending(registry, Found.AppliedMigrations)

\* the status CheckAndRun reads after the recovery attempt is clean
ReadsClean ==
    \/ Found.Status = "clean"
    \/ Found.Status = "migrating" /\ op.recovered

\* CheckAndRun returned res, having invoked no callback
Refused(res) == result = res /\ calls = <<>>

-----------------------------------------------------------------------------
(* History against the applied set *)

\* the record at position i is a success record and not a rollback record
SuccessRecord(h, i) == h[i].Success /\ ~isRollbackRecord(h[i].ID)

\* a rollback record for the identifier of record i follows it
RolledBackLater(h, i) ==
    \E j \in (i + 1)..Len(h) :
        isRollbackRecord(h[j].ID) /\ StripRollback(h[j].ID) = h[i].ID

\* C29: every success record of the history that is not a rollback record
\* has an identifier that is applied or is followed by a rollback record
\* for that identifier.
C29_SuccessAppliedOrRolledBack ==
    \A i \in 1..Len(History) :
        SuccessRecord(History, i) =>
            (History[i].ID \in Applied \/ RolledBackLater(History, i))

\* a migration was applied and rolled back: its success record is followed
\* by its rollback record and it is not applied
C29_Witness ==
    \E i \in 1..Len(History) :
        /\ SuccessRecord(History, i)
        /\ History[i].ID \notin Applied
        /\ RolledBackLater(History, i)

\* the applied identifiers of s without a success record that is not a
\* rollback record
Lacking(s) ==
    {id \in s.AppliedMigrations :
        ~\E i \in 1..Len(s.MigrationHistory) :
            s.MigrationHistory[i].ID = id /\ SuccessRecord(s.MigrationHistory, i)}

\* RepairMissingHistory has returned
RepairDone == pc = "idle" /\ op.type = "repair" /\ result = "ok"

\* C30: when RepairMissingHistory has returned without error the status is
\* clean, every applied identifier has a success record that is not a
\* rollback record, the applied set and current_version are unchanged, and
\* the records appended are one for each applied identifier that lacked
\* such a record.
C30_RepairCompletes ==
    RepairDone =>
        LET old == Len(Origin.MigrationHistory)
        IN  /\ Stored.Status = "clean"
            /\ Lacking(Stored) = {}
            /\ Applied = Origin.AppliedMigrations
            /\ Stored.CurrentVersion = Origin.CurrentVersion
            /\ Len(History) = old + Cardinality(Lacking(Origin))
            /\ SubSeq(History, 1, old) = Origin.MigrationHistory
            /\ {History[i] : i \in (old + 1)..Len(History)} =
                  {MigrationRecord(id, TRUE) : id \in Lacking(Origin)}

-----------------------------------------------------------------------------
(* Pending order: dangling dependencies and cycles *)

PendingIDs(r, applied) == {m.ID : m \in Pending(r, applied)}

\* a pending migration of r declares a dependency that is neither applied
\* nor pending
Dangling(r, applied) ==
    \E m \in Pending(r, applied) :
        \E d \in Range(m.Dependencies) :
            d \notin applied /\ d \notin PendingIDs(r, applied)

\* r with the applied dependencies removed from every declaration
WithoutAppliedDeps(r, applied) ==
    [i \in 1..Len(r) |->
        [r[i] EXCEPT !.Dependencies = SelectSeq(@, LAMBDA d : d \notin applied)]]

\* C25: GetPending fails, returning no sequence, exactly when a pending
\* migration declares a dependency that is neither applied nor pending; a
\* dependency that is applied is ignored, registered or not: the call
\* returns what it returns when that dependency is not declared.
C25_DanglingFails ==
    (tsResult # NoResult) =>
        /\ Dangling(registry, tsApplied) =>
              (~tsResult.ok /\ tsResult.err = "dangling" /\ tsResult.sorted = <<>>)
        /\ tsResult.err = "dangling" => Dangling(registry, tsApplied)
        /\ LET bare == GetPendingMigrations(WithoutAppliedDeps(registry, tsApplied),
                                            tsApplied)
           IN  \E other \in bare :
                  /\ other.ok = tsResult.ok /\ other.err = tsResult.err
                  /\ [i \in 1..Len(other.sorted) |-> other.sorted[i].ID] =
                       [i \in 1..Len(tsResult.sorted) |-> tsResult.sorted[i].ID]

\* the call failed on a dependency on the unregistered ghost, while another
\* pending migration depends on an applied one
C25_Witness ==
    /\ tsResult.err = "dangling"
    /\ \E m \in Pending(registry, tsApplied) :
          IdGhost \in Range(m.Dependencies) /\ IdGhost \notin tsApplied
    /\ \E m \in Pending(registry, tsApplied) :
          \E d \in Range(m.Dependencies) : d \in tsApplied

\* the dependency edges between pending migrations: <<m, d>> when the
\* pending m declares the pending d
PendingEdges(r, applied) ==
    {e \in PendingIDs(r, applied) \X PendingIDs(r, applied) :
        \E m \in Pending(r, applied) : m.ID = e[1] /\ e[2] \in Range(m.Dependencies)}

RECURSIVE Closure(_, _)
\* the transitive closure of the relation R over at most k + 1 nodes
Closure(R, k) ==
    IF k = 0 THEN R
    ELSE Closure(R \cup {<<x[1][1], x[2][2]>> : x \in {y \in R \X R : y[1][2] = y[2][1]}},
                 k - 1)

DependsOn(r, applied) == Closure(PendingEdges(r, applied), Len(r))

\* the pending migrations on a dependency cycle
OnCycle(r, applied) ==
    {n \in PendingIDs(r, applied) : <<n, n>> \in DependsOn(r, applied)}

\* the pending migrations that are on a cycle or depend on one
Blocked(r, applied) ==
    {n \in PendingIDs(r, applied) :
        \E c \in OnCycle(r, applied) : n = c \/ <<n, c>> \in DependsOn(r, applied)}

\* C26: every call of GetPending returns; when no dependency is dangling it
\* fails with the cycle error exactly when the pending migrations hold a
\* dependency cycle, a failure returns no sequence and names every pending
\* migration left with unmet dependencies, and a success returns all
\* pending migrations.
C26_CycleDetected ==
    /\ GetPendingMigrations(registry, tsApplied) # {}
    /\ (tsResult # NoResult /\ ~Dangling(registry, tsApplied)) =>
          /\ (tsResult.err = "cycle") <=> (OnCycle(registry, tsApplied) # {})
          /\ tsResult.ok <=> (OnCycle(registry, tsApplied) = {})
          /\ ~tsResult.ok =>
                /\ tsResult.sorted = <<>>
                /\ tsResult.nodes = Blocked(registry, tsApplied)
          /\ tsResult.ok =>
                Len(tsResult.sorted) = Cardinality(PendingIDs(registry, tsApplied))

\* a cycle was reported together with a migration that is not on the cycle
\* and depends on it, another pending migration being free of it
C26_Witness ==
    /\ tsResult.err = "cycle"
    /\ tsResult.nodes \ OnCycle(registry, tsApplied) # {}
    /\ PendingIDs(registry, tsApplied) \ tsResult.nodes # {}

-----------------------------------------------------------------------------
(* Registration claims *)

\* the first field of id is an integer outside the accepted range
OutsideRange(id) ==
    /\ Len(id) >= 2 /\ Head(id) # NotANumber
    /\ (Head(id) < MinVersion \/ Head(id) > MaxVersion)

\* what Register must refuse: no ID, no Up, no Down, an ID registered
\* before the call, a version outside the range
MustReject(r, m) ==
    \/ m.ID = <<>>
    \/ ~m.Up
    \/ ~m.Down
    \/ m.ID \in RegistryIDs(r)
    \/ OutsideRange(m.ID)

\* C27: Register rejects an empty ID, a missing Up or Down, a registered ID
\* and a version outside the range; a rejected call leaves the registry as it
\* was; the registry lists every accepted migration exactly once, in
\* ascending order of Version, and Version is the first field of the ID.
C27_RegisterValidates ==
    /\ regCall.called =>
          /\ MustReject(regCall.before, regCall.m) => ~regCall.ok
          /\ ~regCall.ok => registry = regCall.before
    /\ Len(GetMigrations(registry)) = Len(regCall.accepted)
    /\ \A i \in 1..Len(regCall.accepted) :
          Cardinality({j \in 1..Len(registry) :
              registry[j] = [regCall.accepted[i] EXCEPT
                                !.Version = Head(regCall.accepted[i].ID)]}) = 1
    /\ \A i, j \in 1..Len(registry) :
          i < j => registry[i].Version <= registry[j].Version

\* a registered ID was rejected after a migration registered later had
\* moved ahead of an earlier one, the caller's Version having been replaced
C27_Witness ==
    /\ regCall.called /\ ~regCall.ok
    /\ regCall.m.ID \in RegistryIDs(regCall.before)
    /\ Len(registry) >= 2
    /\ registry[1].ID = regCall.accepted[2].ID
    /\ \E i \in 1..Len(regCall.accepted) :
          regCall.accepted[i].Version = MaxVersion /\ regCall.accepted[i].ID = IdC

\* the text after the first "_" is not empty and holds no space and no "@"
DescriptionWellFormed(id) ==
    /\ ~(Len(id) = 2 /\ id[2] = "")
    /\ \A i \in 2..Len(id) : id[i] \notin {"test migration", "test@migration"}

\* C28: an identifier is accepted by Register and by ParseMigrationVersion
\* only if its first field is an integer of the range and its second field
\* is not empty and holds only letters, digits, "_" and "-".
C28_OnlyWellFormedAccepted ==
    regCall.called =>
        ((regCall.ok \/ isValidMigrationID(regCall.m.ID)) =>
            /\ Len(regCall.m.ID) >= 2
            /\ Head(regCall.m.ID) # NotANumber
            /\ Head(regCall.m.ID) >= MinVersion /\ Head(regCall.m.ID) <= MaxVersion
            /\ DescriptionWellFormed(regCall.m.ID))

-----------------------------------------------------------------------------
(* Repair and validation after a forced clean *)

\* C31: when ValidateSchemaState reports an applied migration without a
\* successful record, RepairMissingHistory followed by ValidateSchemaState
\* does not report it any more.
C31_RepairFixesValidation ==
    (RepairDone /\ ValidateSchemaState(Origin) = "applied but no successful record") =>
        ValidateSchemaState(Stored) # "applied but no successful record"

\* ForceCleanState has returned
ForceCleanDone == pc = "idle" /\ op.type = "forceclean" /\ result = "ok"

\* the last record of the history is the failure of a Down or of a rerun
FailedStepLast ==
    /\ History # <<>>
    /\ ~History[Len(History)].Success
    /\ History[Len(History)].ID[Len(History[Len(History)].ID)] \in {"rollback", "rerun"}

\* C36: the catalog that ForceClean leaves after a failed Down or a failed
\* rerun passes validation: the failure record cancels no success record,
\* so the migrations still applied keep theirs.
C36_ForceCleanValidates ==
    (ForceCleanDone /\ FailedStepLast) => ValidateSchemaState(Stored) = "ok"

-----------------------------------------------------------------------------
(* Backup claims *)

\* the backup `id` is complete: its artifact is in the parent directory
\* with the snapshot it was made of, and ListBackups returns its metadata
Complete(id) ==
    \E e \in bk.entries :
        /\ e.id = id /\ e.kind # "metadata"
        /\ readBackupMetadata(bk.entries, e) # {}
        /\ readBackupMetadata(bk.entries, e) \subseteq ListBackups(bk.entries)

\* the identifiers of the n backups created last
MostRecent(n) ==
    {bk.created[i] : i \in {j \in 1..Len(bk.created) : j > Len(bk.created) - n}}

\* C32: after every CreateBackup with retention limit N the N backups
\* created last, the new one included, are complete and listed.
C32_RetentionKeepsNewest ==
    (bk.last.op = "create" /\ bk.last.ok) =>
        \A id \in MostRecent(bk.maxBackups) : Complete(id)

\* C33: after a successful RestoreBackup the store path is a directory
\* whose files are exactly those of the snapshot the backup was made of.
C33_RestoreRoundTrip ==
    (bk.last.op = "restore" /\ bk.last.ok) =>
        /\ bk.store.kind = "dir"
        /\ ~bk.store.extra
        /\ \E e \in bk.entries :
              <<e.id, e.kind>> = bk.last.path /\ bk.store.snap = e.snap

\* C34: RestoreBackup refuses a backup without metadata or made for
\* another path and leaves the store alone; every failing return after the
\* temporary copy was made keeps that copy, only success removes it, and a
\* failed copy is followed by the store being put back from it.
C34_RestoreKeepsRecoveryCopy ==
    (bk.last.op = "restore") =>
        /\ (bk.last.err \in {"invalid backup", "backup is for another database"}) =>
              (bk.store = bk.last.before /\ ~bk.last.tempMade)
        /\ (bk.last.tempMade /\ ~bk.last.ok) => bk.last.tempKept
        /\ bk.last.ok => ~bk.last.tempKept
        /\ (bk.last.err = "restore failed but database recovered") =>
              bk.store = bk.last.before

\* C35: the version of the BackupInfo returned by CreateBackup, and the
\* VERSION of the metadata written, is the catalog's current_version when
\* CreateBackup ran.
C35_BackupRecordsVersion ==
    (bk.last.op = "create" /\ bk.last.ok) =>
        /\ bk.last.info.Version = bk.last.before.snap.version
        /\ \A i \in ListBackups(bk.entries) :
              i.Path = bk.last.path => i.Version = bk.last.before.snap.version

-----------------------------------------------------------------------------
(* Startup after a crash *)

\* the process died during a callback and left status migrating under the
\* reserved key
CrashedMigrating ==
    /\ pc = "idle" /\ result = "crashed"
    /\ hasKey /\ schema.Status = "migrating"

\* this step is a call of CheckAndRun
CheckAndRunStep == pc = "idle" /\ op'.via = "checkandrun" /\ pre' = Snapshot

\* C37: when CheckAndRun finds status migrating after a crash, the head of
\* the pending plan, which recovery takes for the stuck migration, is the
\* migration whose callback was executing when the process died.
C37_HeadIsInterrupted ==
    [][(CrashedMigrating /\ CheckAndRunStep) =>
          \A rp \in PlanUpgrade(registry, schema) :
             rp.ok /\ Len(rp.sorted) > 0 /\ rp.sorted[1].ID = plan[idx].ID]_vars

\* C38: with RunMigrations unset and the reserved key present, CheckAndRun
\* writes nothing: the record is what it was, a status migrating included.
C38_NoRunNoWrite ==
    (op.via = "checkandrun" /\ ~op.run /\ pre.hasKey /\ pc = "idle") =>
        (hasKey /\ schema = pre.schema)

-----------------------------------------------------------------------------
(* Dependencies in bounded upgrades and in downgrades *)

\* every migration of the plan q has each declared dependency applied or
\* earlier in q
DependenciesFirst(q) ==
    \A i \in 1..Len(q) :
        \A d \in Range(q[i].Dependencies) :
            d \in Applied \/ \E j \in 1..(i - 1) : q[j].ID = d

\* C39: in every plan returned by PlanUpgradeTo(v) each migration's declared
\* dependencies are applied or earlier in the plan, and while an upgrade
\* runs an Up the migration's dependencies are applied.
C39_UpgradeToRespectsDependencies ==
    /\ pc = "idle" =>
          \A v \in Targets : \A q \in PlanUpgradeTo(registry, Stored, v) :
              DependenciesFirst(q.sorted)
    /\ (pc = "run" /\ op.type = "upgrade" /\ cb = "Up") =>
          \A d \in Range(plan[idx].Dependencies) : d \in Applied

\* the applied migrations of the registry that declare id as a dependency
AppliedDependents(id) ==
    {m \in Range(registry) : m.ID \in Applied /\ id \in Range(m.Dependencies)}

\* C40: in every plan returned by PlanDowngrade(v) a migration comes after
\* every applied migration that declares it as a dependency, and when the
\* plan has been executed no applied migration declares a dependency that
\* was rolled back.
C40_DowngradeRespectsDependencies ==
    /\ pc = "idle" =>
          \A v \in Targets : \A q \in PlanDowngrade(registry, Stored, v) :
              \A i \in 1..Len(q.sorted) :
                  \A m \in AppliedDependents(q.sorted[i].ID) :
                      \E j \in 1..(i - 1) : q.sorted[j].ID = m.ID
    /\ DowngradeDone =>
          \A i \in 1..Len(plan) : AppliedDependents(plan[i].ID) = {}

====
